---- MODULE Spec2Model ----
(***************************************************************************)
(* Model of the ISO 20022 -> MT103 converter of src/server.js: the         *)
(* /convert-text handler, buildMT103 and its helpers clean and             *)
(* formatDateYYMMDD.                                                       *)
(*                                                                         *)
(* A JavaScript string is a sequence of one-character strings.  A          *)
(* JavaScript value is a tagged record: undefined, a string, an object     *)
(* (a function from property names to values) or an array.                 *)
(***************************************************************************)
EXTENDS Integers, Sequences, FiniteSets, TLC

VARIABLES
  pc,            \* position of the handler: "idle", "replied";
                 \* "call", "return" in the specification of clean;
                 \* "dateCall", "dateReturn" in that of formatDateYYMMDD
  objectString,  \* what String(node) does for a parsed element node (build-dependent)
  xmlText,       \* req.body.xml of the request being served: "absent", "blank", "text"
  result,        \* the tree xml2js hands to the parseString callback
  status,        \* HTTP status of the reply (0: none yet)
  errorText,     \* the message of a rejection ("" when none)
  built,         \* TRUE once buildMT103 has been invoked for the request
  mt103,         \* the array mt103 of buildMT103 when it returns
  body,          \* the text sent with a 200 reply: mt103.join("\n")
  cleanArg,      \* argument of a call of clean
  cleanRet,      \* its return value
  dateArg,       \* argument of a call of formatDateYYMMDD
  dateRet,       \* its return value
  cpc,           \* position of handleFormSubmit in the browser: "ready", "awaiting",
                 \* "settled" (the fetch promise has settled), "done"
  form,          \* the values of the form's fields
  formValid,     \* form.checkValidity()
  request,       \* the request fetch has sent
  response,      \* what the fetch promise settled with
  btnDisabled,   \* submitBtn.disabled
  btnText,       \* submitBtn.textContent
  spinnerHidden, \* loadingSpinner has the class hidden
  resultHidden,  \* resultContainer has the class hidden
  shown,         \* what mt103Result shows: "nothing", "mt103", "error"
  shownText      \* the content shown

\* the page of public/script.js
clientVars == <<cpc, form, formValid, request, response, btnDisabled, btnText,
                spinnerHidden, resultHidden, shown, shownText>>

\* the server of server.js and the calls of its helpers under study
serverVars == <<pc, objectString, xmlText, result, status, errorText, built, mt103, body,
                cleanArg, cleanRet, dateArg, dateRet>>

vars == <<serverVars, clientVars>>

(***************************************************************************)
(* Bounds.                                                                 *)
(***************************************************************************)
MaxParts == 3      \* pieces concatenated to form an argument of clean
MaxAdrLines == 2   \* elements of a repeated AdrLine

(***************************************************************************)
(* JavaScript values.                                                      *)
(***************************************************************************)
Undef == [t |-> "undef"]
Str(s) == [t |-> "str", s |-> s]
Obj(f) == [t |-> "obj", f |-> f]
Arr(a) == [t |-> "arr", a |-> a]
EmptyObj == Obj(<<>>)

\* !v is false
Truthy(v) == ~(v.t = "undef" \/ (v.t = "str" /\ v.s = <<>>))

\* a || b
Or(a, b) == IF Truthy(a) THEN a ELSE b

\* v.k and v?.k.  Every plain v.k of the code is on a value the code has made
\* truthy (x || {}), so the two agree; a string or an array has none of the
\* element names as a property.
Get(v, k) == IF v.t = "obj" /\ k \in DOMAIN v.f THEN v.f[k] ELSE Undef

HasKey(v, k) == v.t = "obj" /\ k \in DOMAIN v.f

(***************************************************************************)
(* Strings.                                                                *)
(***************************************************************************)
NL == "\n"
TOKEN == <<"N","O","T","P","R","O","V","I","D","E","D">>
ObjectObject == <<"[","o","b","j","e","c","t"," ","O","b","j","e","c","t","]">>

Lowers == <<"n","o","t","p","r","v","i","d","e">>
Uppers == <<"N","O","T","P","R","V","I","D","E">>

\* case folding of the /i flag, on the letters of the token
toUpper(c) ==
  IF \E i \in 1..Len(Lowers) : Lowers[i] = c
  THEN Uppers[CHOOSE i \in 1..Len(Lowers) : Lowers[i] = c]
  ELSE c

\* the regular expression /NOTPROVIDED/i matches s at position i
MatchesAt(s, i) ==
  /\ i + Len(TOKEN) - 1 <= Len(s)
  /\ \A k \in 1..Len(TOKEN) : toUpper(s[i + k - 1]) = TOKEN[k]

\* s.includes(TOKEN), in any letter case
ContainsToken(s) == \E i \in 1..Len(s) : MatchesAt(s, i)

\* s.replace(/NOTPROVIDED/gi, ""): one scan from left to right; the scan goes
\* on after a match and never looks again at what it has already produced
RECURSIVE replaceToken(_)
replaceToken(s) ==
  IF s = <<>> THEN <<>>
  ELSE IF MatchesAt(s, 1) THEN replaceToken(SubSeq(s, Len(TOKEN) + 1, Len(s)))
  ELSE <<Head(s)>> \o replaceToken(Tail(s))

IsSpace(c) == c \in {" ", NL, "\t"}

RECURSIVE trimStart(_)
trimStart(s) ==
  IF s # <<>> /\ IsSpace(Head(s)) THEN trimStart(Tail(s)) ELSE s

RECURSIVE trimEnd(_)
trimEnd(s) ==
  IF s # <<>> /\ IsSpace(s[Len(s)]) THEN trimEnd(SubSeq(s, 1, Len(s) - 1)) ELSE s

\* s.trim()
trim(s) == trimEnd(trimStart(s))

\* s.includes(c)
includes(s, c) == \E i \in 1..Len(s) : s[i] = c

\* s.replace(a, b) with a string pattern: the first occurrence only
replaceFirst(s, a, b) ==
  IF includes(s, a)
  THEN LET i == CHOOSE j \in 1..Len(s) : s[j] = a /\ \A k \in 1..(j - 1) : s[k] # a
       IN [s EXCEPT ![i] = b]
  ELSE s

StartsWith(s, p) == Len(p) <= Len(s) /\ SubSeq(s, 1, Len(p)) = p

\* lines.join(sep)
RECURSIVE join(_, _)
join(lines, sep) ==
  IF lines = <<>> THEN <<>>
  ELSE IF Len(lines) = 1 THEN lines[1]
  ELSE lines[1] \o <<sep>> \o join(Tail(lines), sep)

\* a value has an element node in it (itself, or an element of an array)
RECURSIVE HasNode(_)
HasNode(v) ==
  \/ v.t = "obj"
  \/ v.t = "arr" /\ \E i \in 1..Len(v.a) : HasNode(v.a[i])

\* String(v).  An element node is an object xml2js made: with a prototype it
\* is "[object Object]", without one (Object.create(null)) the conversion
\* raises TypeError; StringThrows says which.
RECURSIVE String(_)
String(v) ==
  CASE v.t = "str" -> v.s
    [] v.t = "undef" -> <<"u","n","d","e","f","i","n","e","d">>
    [] v.t = "obj" -> ObjectObject
    [] v.t = "arr" ->
         join([i \in 1..Len(v.a) |->
                 IF v.a[i].t = "undef" THEN <<>> ELSE String(v.a[i])], ",")

StringThrows(v, mode) == mode = "TypeError" /\ HasNode(v)

(***************************************************************************)
(* clean (server.js 12-15).                                                *)
(***************************************************************************)
clean(value) ==
  IF ~Truthy(value) THEN <<>> ELSE trim(replaceToken(String(value)))

\* the values clean converts with String
cleanThrows(value, mode) == Truthy(value) /\ StringThrows(value, mode)

(***************************************************************************)
(* formatDateYYMMDD (server.js 17-25).                                     *)
(***************************************************************************)
Digits == <<"0","1","2","3","4","5","6","7","8","9">>
IsDigit(c) == \E i \in 1..Len(Digits) : Digits[i] = c
DigitOf(c) == (CHOOSE i \in 1..Len(Digits) : Digits[i] = c) - 1
AllDigits(s) == \A i \in 1..Len(s) : IsDigit(s[i])

RECURSIVE NumOf(_)
NumOf(s) ==
  IF s = <<>> THEN 0
  ELSE NumOf(SubSeq(s, 1, Len(s) - 1)) * 10 + DigitOf(s[Len(s)])

\* String(n) of a natural number
RECURSIVE NumStr(_)
NumStr(n) ==
  IF n < 10 THEN <<Digits[n + 1]>>
  ELSE NumStr(n \div 10) \o <<Digits[(n % 10) + 1]>>

IsLeap(y) == (y % 4 = 0 /\ y % 100 # 0) \/ y % 400 = 0

DaysInMonth(y, m) ==
  IF m = 2 THEN (IF IsLeap(y) THEN 29 ELSE 28)
  ELSE IF m \in {4, 6, 9, 11} THEN 30 ELSE 31

\* where the year of a date string ends: four digits, or a sign and six
YearEnd(s) == IF Len(s) > 0 /\ s[1] = "+" THEN 7 ELSE 4
YearDigits(s) == SubSeq(s, IF s[1] = "+" THEN 2 ELSE 1, YearEnd(s))

\* YYYY-MM-DD and +YYYYYY-MM-DD
IsoDate(s) ==
  LET e == YearEnd(s)
  IN /\ Len(s) = e + 6
     /\ AllDigits(YearDigits(s)) /\ s[e + 1] = "-"
     /\ AllDigits(SubSeq(s, e + 2, e + 3)) /\ s[e + 4] = "-"
     /\ AllDigits(SubSeq(s, e + 5, e + 6))
     /\ NumOf(SubSeq(s, e + 2, e + 3)) \in 1..12
     /\ NumOf(SubSeq(s, e + 5, e + 6)) \in
          1..DaysInMonth(NumOf(YearDigits(s)), NumOf(SubSeq(s, e + 2, e + 3)))

\* THH:MM:SSZ
IsoTimeZ(s) ==
  /\ Len(s) = 10
  /\ s[1] = "T" /\ AllDigits(SubSeq(s, 2, 3)) /\ s[4] = ":"
  /\ AllDigits(SubSeq(s, 5, 6)) /\ s[7] = ":"
  /\ AllDigits(SubSeq(s, 8, 9)) /\ s[10] = "Z"
  /\ NumOf(SubSeq(s, 2, 3)) \in 0..23
  /\ NumOf(SubSeq(s, 5, 6)) \in 0..59
  /\ NumOf(SubSeq(s, 8, 9)) \in 0..59

InvalidDate == [valid |-> FALSE, fullYear |-> 0, month |-> 0, date |-> 0]

\* new Date(s) of a string, as its UTC calendar fields (month from 0).  The
\* strings of the model are ISO dates (the year in four digits, or in six
\* after a sign), ISO date-times in UTC, and strings
\* with no date in them; a date-only form and a form ending in Z are read as
\* UTC, anything that is not a date gives an invalid Date (NaN).
ParseDate(s) ==
  LET e == YearEnd(s)
  IN IF \/ IsoDate(s)
        \/ /\ Len(s) = e + 16
           /\ IsoDate(SubSeq(s, 1, e + 6))
           /\ IsoTimeZ(SubSeq(s, e + 7, e + 16))
     THEN [valid |-> TRUE,
           fullYear |-> NumOf(YearDigits(s)),
           month |-> NumOf(SubSeq(s, e + 2, e + 3)) - 1,
           date |-> NumOf(SubSeq(s, e + 5, e + 6))]
     ELSE InvalidDate

\* new Date(v): a value that is no string is converted to one first
NewDate(v) == ParseDate(String(v))

\* s.slice(n)
slice(s, n) == SubSeq(s, n + 1, Len(s))

\* s.padStart(2, "0")
padStart2(s) == IF Len(s) < 2 THEN <<"0">> \o s ELSE s

formatDateYYMMDD(dateString) ==
  IF ~Truthy(dateString) THEN <<>>
  ELSE LET date == NewDate(dateString)
       IN IF ~date.valid THEN <<>>
          ELSE slice(NumStr(date.fullYear), 2)
                 \o padStart2(NumStr(date.month + 1))
                 \o padStart2(NumStr(date.date))

formatDateThrows(dateString, mode) ==
  Truthy(dateString) /\ StringThrows(dateString, mode)

(***************************************************************************)
(* buildMT103 (server.js 27-116).  Each local of the function is an        *)
(* operator of its argument.                                               *)
(***************************************************************************)
Tag20 == <<":","2","0",":">>
Tag23B == <<":","2","3","B",":">>
Tag32A == <<":","3","2","A",":">>
Tag50K == <<":","5","0","K",":">>
Tag52A == <<":","5","2","A",":">>
Tag53A == <<":","5","3","A",":">>
Tag54A == <<":","5","4","A",":">>
Tag57A == <<":","5","7","A",":">>
Tag59 == <<":","5","9",":">>
Tag70 == <<":","7","0",":">>
Tag71A == <<":","7","1","A",":">>
Open4 == <<"{","4",":">>
Close4 == <<"-","}">>
sCRED == <<"C","R","E","D">>
sDEBT == <<"D","E","B","T">>
sSHAR == <<"S","H","A","R">>
sOUR == <<"O","U","R">>
sBEN == <<"B","E","N">>
sSHA == <<"S","H","A">>

grpHdr(data) == Or(Get(data, "GrpHdr"), EmptyObj)
txInfo(data) == Or(Get(data, "CdtTrfTxInf"), EmptyObj)
dbtr(data) == Or(Get(txInfo(data), "Dbtr"), EmptyObj)
cdtr(data) == Or(Get(txInfo(data), "Cdtr"), EmptyObj)
sttlmInf(data) == Or(Get(grpHdr(data), "SttlmInf"), EmptyObj)

\* x?.FinInstnId?.BICFI || ""
bicfi(agent) == Or(Get(Get(agent, "FinInstnId"), "BICFI"), Str(<<>>))

instrIdRaw(data) == Or(Get(Get(txInfo(data), "PmtId"), "InstrId"), Str(<<>>))
instrId(data) == clean(instrIdRaw(data))

sttlmDtRaw(data) == Get(txInfo(data), "IntrBkSttlmDt")
creDtTmRaw(data) == Get(grpHdr(data), "CreDtTm")

\* the two dates taken in the other order
valueDateCreationFirst(data) ==
  IF formatDateYYMMDD(creDtTmRaw(data)) # <<>>
  THEN formatDateYYMMDD(creDtTmRaw(data))
  ELSE formatDateYYMMDD(sttlmDtRaw(data))

\* formatDateYYMMDD(a) || formatDateYYMMDD(b)
valueDate(data) ==
  IF formatDateYYMMDD(sttlmDtRaw(data)) # <<>>
  THEN formatDateYYMMDD(sttlmDtRaw(data))
  ELSE formatDateYYMMDD(creDtTmRaw(data))

currencyRaw(data) ==
  Or(Get(Get(Get(txInfo(data), "IntrBkSttlmAmt"), "$"), "Ccy"), Str(<<>>))
currency(data) == String(currencyRaw(data))

amountRaw(data) ==
  Or(Or(Get(Get(txInfo(data), "IntrBkSttlmAmt"), "_"),
        Get(txInfo(data), "IntrBkSttlmAmt")),
     Str(<<>>))

\* s.replace(/a/g, b): every occurrence
replaceEvery(s, a, b) == [i \in 1..Len(s) |-> IF s[i] = a THEN b ELSE s[i]]

\* every point replaced, not the first only
amountEveryPoint(data) ==
  IF ~Truthy(amountRaw(data)) THEN <<>>
  ELSE LET replaced == replaceEvery(String(amountRaw(data)), ".", ",")
       IN IF ~includes(replaced, ",") THEN replaced \o <<",","0","0">> ELSE replaced

amount(data) ==
  IF ~Truthy(amountRaw(data)) THEN <<>>
  ELSE LET replaced == replaceFirst(String(amountRaw(data)), ".", ",")
       IN IF ~includes(replaced, ",") THEN replaced \o <<",","0","0">> ELSE replaced

dbtrIbanRaw(data) ==
  Or(Get(Get(Get(txInfo(data), "DbtrAcct"), "Id"), "IBAN"), Str(<<>>))
dbtrIban(data) == clean(dbtrIbanRaw(data))

nameRaw(party) == Or(Get(party, "Nm"), Str(<<>>))

\* the lines a party's name pushes
nameLines(party) ==
  IF clean(nameRaw(party)) # <<>> THEN <<clean(nameRaw(party))>> ELSE <<>>

\* Array.isArray(addr) ? addr : [addr].filter(Boolean)
addressArray(party) ==
  LET addr == Or(Get(Get(party, "PstlAdr"), "AdrLine"), Arr(<<>>))
  IN IF addr.t = "arr" THEN addr.a ELSE SelectSeq(<<addr>>, Truthy)

\* every line pushed, the empty ones too
addressLinesKeepEmpty(array) == [i \in 1..Len(array) |-> clean(array[i])]

\* the lines the forEach over the address array pushes
RECURSIVE addressLines(_)
addressLines(array) ==
  IF array = <<>> THEN <<>>
  ELSE (IF clean(Head(array)) # <<>> THEN <<clean(Head(array))>> ELSE <<>>)
         \o addressLines(Tail(array))

dbtrAgentRaw(data) == bicfi(Get(txInfo(data), "DbtrAgt"))
instgAgentRaw(data) == bicfi(Get(sttlmInf(data), "InstgRmbrsmntAgt"))
instdAgentRaw(data) == bicfi(Get(sttlmInf(data), "InstdRmbrsmntAgt"))
cdtrAgentRaw(data) == bicfi(Get(txInfo(data), "CdtrAgt"))

cdtrAccountRaw(data) ==
  Or(Or(Get(Get(Get(Get(txInfo(data), "CdtrAcct"), "Id"), "Othr"), "Id"),
        Get(Get(Get(txInfo(data), "CdtrAcct"), "Id"), "IBAN")),
     Str(<<>>))
cdtrAccount(data) == clean(cdtrAccountRaw(data))

remittanceInfoRaw(data) == Or(Get(Get(txInfo(data), "RmtInf"), "Ustrd"), Str(<<>>))

chrgBrRaw(data) == Get(txInfo(data), "ChrgBr")

\* the code mapped as it stands, without clean
chargesUncleaned(data) ==
  IF ~Truthy(chrgBrRaw(data)) THEN <<>>
  ELSE LET chrgBr == String(chrgBrRaw(data))
       IN CASE chrgBr = sDEBT -> sOUR
            [] chrgBr = sCRED -> sBEN
            [] chrgBr = sSHAR -> sSHA
            [] OTHER -> chrgBr

charges(data) ==
  IF ~Truthy(chrgBrRaw(data)) THEN <<>>
  ELSE LET chrgBr == clean(chrgBrRaw(data))
       IN CASE chrgBr = sDEBT -> sOUR
            [] chrgBr = sCRED -> sBEN
            [] chrgBr = sSHAR -> sSHA
            [] OTHER -> chrgBr

\* the array mt103 when buildMT103 returns
buildMT103(data) ==
  <<Open4,
    Tag20 \o instrId(data),
    Tag23B \o sCRED,
    Tag32A \o valueDate(data) \o currency(data) \o amount(data),
    Tag50K \o <<"/">> \o dbtrIban(data)>>
  \o nameLines(dbtr(data))
  \o addressLines(addressArray(dbtr(data)))
  \o <<Tag52A \o clean(dbtrAgentRaw(data)),
       Tag53A \o clean(instgAgentRaw(data)),
       Tag54A \o clean(instdAgentRaw(data)),
       Tag57A \o clean(cdtrAgentRaw(data)),
       Tag59 \o <<"/">> \o cdtrAccount(data)>>
  \o nameLines(cdtr(data))
  \o addressLines(addressArray(cdtr(data)))
  \o <<Tag70 \o clean(remittanceInfoRaw(data)),
       Tag71A \o charges(data),
       Close4>>

\* buildMT103 raises: one of the values it converts to a string is (or holds)
\* an element node, in a build where that conversion raises TypeError
buildMT103Throws(data, mode) ==
  \/ \E v \in { instrIdRaw(data), amountRaw(data), currencyRaw(data), dbtrIbanRaw(data),
                nameRaw(dbtr(data)), nameRaw(cdtr(data)),
                dbtrAgentRaw(data), instgAgentRaw(data), instdAgentRaw(data),
                cdtrAgentRaw(data), cdtrAccountRaw(data), remittanceInfoRaw(data),
                chrgBrRaw(data) } : cleanThrows(v, mode)
  \/ \E i \in 1..Len(addressArray(dbtr(data))) :
       cleanThrows(addressArray(dbtr(data))[i], mode)
  \/ \E i \in 1..Len(addressArray(cdtr(data))) :
       cleanThrows(addressArray(cdtr(data))[i], mode)
  \/ formatDateThrows(sttlmDtRaw(data), mode)
  \/ /\ formatDateYYMMDD(sttlmDtRaw(data)) = <<>>
     /\ formatDateThrows(creDtTmRaw(data), mode)

(***************************************************************************)
(* The page (public/script.js): the form, the submit button, the spinner   *)
(* and the result container.                                               *)
(***************************************************************************)
MaxFormFields == 3   \* fields of the form that are given values

\* the names of the form's fields, in document order, each with its element
fieldMapping ==
  << <<"messageType", "MessageType">>, <<"senderId", "SenderId">>,
     <<"receiverId", "ReceiverId">>, <<"date", "Date">>, <<"amount", "Amount">>,
     <<"currency", "Currency">>, <<"debitorName", "DebitorName">>,
     <<"debitorAccountNumber", "DebitorAccountNumber">>, <<"debitorBIC", "DebitorBIC">>,
     <<"creditorName", "CreditorName">>,
     <<"creditorAccountNumber", "CreditorAccountNumber">>,
     <<"creditorBIC", "CreditorBIC">>, <<"instructionId", "InstructionId">>,
     <<"endToEndId", "EndToEndId">>, <<"purpose", "Purpose">>,
     <<"remittanceInfo", "RemittanceInfo">> >>

\* the fields that are given values
FormFields ==
  1..(IF MaxFormFields < Len(fieldMapping) THEN MaxFormFields ELSE Len(fieldMapping))

\* s.replace(/c/g, r) for a character c
RECURSIVE replaceChar(_, _, _)
replaceChar(s, c, r) ==
  IF s = <<>> THEN <<>>
  ELSE (IF Head(s) = c THEN r ELSE <<Head(s)>>) \o replaceChar(Tail(s), c, r)

escapeXML(str) ==
  replaceChar(
    replaceChar(
      replaceChar(
        replaceChar(
          replaceChar(str, "&", <<"&","a","m","p",";">>),
          "<", <<"&","l","t",";">>),
        ">", <<"&","g","t",";">>),
      "\"", <<"&","q","u","o","t",";">>),
    "'", <<"&","a","p","o","s",";">>)

\* the elements getFormXML writes under <ISO20022>: one for each field whose
\* value is not blank, in the order of the form
RECURSIVE formElements(_, _)
formElements(f, i) ==
  IF i > Len(f) THEN <<>>
  ELSE (IF trim(f[i]) # <<>>
        THEN <<[tag |-> fieldMapping[i][2], text |-> escapeXML(f[i])]>>
        ELSE <<>>)
         \o formElements(f, i + 1)

getFormXML(f) == [root |-> "ISO20022", elements |-> formElements(f, 1)]

\* before fetch is called there is no request
NoRequest == [method |-> "none"]

\* the page as loaded, in the specifications that do not run it
PageUntouched ==
  /\ cpc = "ready"
  /\ form = [i \in FormFields |-> <<>>]
  /\ formValid = FALSE
  /\ request = NoRequest
  /\ response = [kind |-> "none"]
  /\ btnDisabled = FALSE
  /\ btnText = "Convert to MT103"
  /\ spinnerHidden = TRUE
  /\ resultHidden = TRUE
  /\ shown = "nothing"
  /\ shownText = <<>>

(***************************************************************************)
(* The /convert-text handler (server.js 118-145).                          *)
(***************************************************************************)
NoXmlProvided == "No XML provided"
ErrorParsingXml == "Error parsing XML"
ElementNotFound == "FIToFICstmrCdtTrf element not found in XML"
ErrorConverting == "Error converting to MT103"

\* the bare path forgotten
resolveDataDocumentOnly(tree) == Get(Get(tree, "Document"), "FIToFICstmrCdtTrf")

\* result.Document?.FIToFICstmrCdtTrf || result.FIToFICstmrCdtTrf
resolveData(tree) ==
  Or(Get(Get(tree, "Document"), "FIToFICstmrCdtTrf"), Get(tree, "FIToFICstmrCdtTrf"))

\* !xmlText || !xmlText.trim(): 400
NoXml ==
  /\ pc = "idle"
  /\ xmlText' \in {"absent", "blank"}
  /\ status' = 400
  /\ errorText' = NoXmlProvided
  /\ pc' = "replied"
  /\ UNCHANGED <<objectString, result, built, mt103, body, cleanArg, cleanRet, dateArg, dateRet, clientVars>>

\* parseString calls back with err: 500
ParseError ==
  /\ pc = "idle"
  /\ xmlText' = "text"
  /\ status' = 500
  /\ errorText' = ErrorParsingXml
  /\ pc' = "replied"
  /\ UNCHANGED <<objectString, result, built, mt103, body, cleanArg, cleanRet, dateArg, dateRet, clientVars>>

\* parseString calls back with a tree in which neither path has a truthy value
NotFound(tree) ==
  /\ ~Truthy(resolveData(tree))
  /\ status' = 500
  /\ errorText' = ElementNotFound
  /\ UNCHANGED <<built, mt103, body>>

\* buildMT103 raises and the catch block replies
ConversionError(tree) ==
  /\ Truthy(resolveData(tree))
  /\ buildMT103Throws(resolveData(tree), objectString)
  /\ built' = TRUE
  /\ status' = 500
  /\ errorText' = ErrorConverting
  /\ UNCHANGED <<mt103, body>>

\* buildMT103 returns and its text is sent
Converted(tree) ==
  /\ Truthy(resolveData(tree))
  /\ ~buildMT103Throws(resolveData(tree), objectString)
  /\ built' = TRUE
  /\ mt103' = buildMT103(resolveData(tree))
  /\ body' = join(buildMT103(resolveData(tree)), NL)
  /\ status' = 200
  /\ errorText' = ""

(***************************************************************************)
(* The trees the parser can hand over.  With explicitArray: false an       *)
(* element with text only is a string, an empty element the empty string,  *)
(* an element with attributes or children an object (attributes under "$", *)
(* text under "_"), a repeated element an array.                           *)
(***************************************************************************)
sAB == <<"A","B">>
sCD == <<"C","D">>
sPadded == <<" ","A","B"," ">>
sTagLike == <<":","2","0",":","X">>
sTwoLines == <<"A",NL,"B">>
sUSD == <<"U","S","D">>
sREF == <<"R","E","F","1">>
sIBAN == <<"D","E","8","9">>
sOTHR == <<"9","8","7","6">>
sBIC == <<"B","I","C","A">>
sXYZZ == <<"X","Y","Z","Z">>
sSharPadded == <<" ","S","H","A","R"," ">>
sXyzzPadded == <<" ","X","Y","Z","Z"," ">>
sLowerDebt == <<"d","e","b","t">>
sSttlmDt == <<"2","0","2","6","-","0","1","-","0","5">>
sCreDtTm == <<"2","0","2","6","-","0","2","-","1","0","T","0","8",":","0","0",":","0","0","Z">>
sEarlyDt == <<"0","9","9","9","-","1","2","-","3","1">>
sNoDate == <<"s","o","o","n">>
s100 == <<"1","0","0">>
s100p5 == <<"1","0","0",".","5">>
s100p00 == <<"1","0","0",".","0","0">>
s100c5 == <<"1","0","0",",","5">>
sTwoPoints == <<"1",".","0","0","0",".","5">>
sPlaceholder == <<" ">> \o TOKEN

\* <X Ccy="c"/>, <X Ccy="c">text</X>, <X><Cd>AB</Cd></X>
AttrOnly(c) == Obj("$" :> Obj("Ccy" :> Str(c)))
AttrText(text, c) == Obj(("$" :> Obj("Ccy" :> Str(c))) @@ ("_" :> Str(text)))
Nested == Obj("Cd" :> Str(sAB))

Fields ==
  {"InstrId", "IntrBkSttlmDt", "CreDtTm", "IntrBkSttlmAmt", "DbtrIBAN", "DbtrNm",
   "DbtrAdrLine", "DbtrAgt", "InstgAgt", "InstdAgt", "CdtrAgt", "OthrId", "CdtrIBAN",
   "CdtrNm", "CdtrAdrLine", "Ustrd", "ChrgBr"}

TextVals ==
  {Undef, Str(<<>>), Str(sAB), Str(sPadded), Str(sPlaceholder), Str(sTagLike),
   Str(sTwoLines), AttrOnly(sUSD)}

DateVals ==
  {Undef, Str(<<>>), Str(sSttlmDt), Str(sCreDtTm), Str(sEarlyDt), Str(sNoDate),
   Str(TOKEN), AttrOnly(sUSD)}

AmtVals ==
  {Undef, Str(<<>>), Str(s100), Str(s100p5), Str(s100p00), Str(s100c5), Str(sTwoPoints),
   Str(TOKEN), AttrText(s100, sUSD), AttrText(s100p5, TOKEN), AttrOnly(sUSD), Nested}

ChrgVals ==
  {Undef, Str(<<>>), Str(sDEBT), Str(sCRED), Str(sSHAR), Str(sXYZZ), Str(sSharPadded),
   Str(sXyzzPadded), Str(sLowerDebt), Str(sPlaceholder), AttrOnly(sUSD)}

AdrElems == {Str(sAB), Str(sCD), Str(sPlaceholder), AttrOnly(sUSD)}

RECURSIVE SeqsUpTo(_, _)
SeqsUpTo(S, n) ==
  IF n = 0 THEN { <<>> }
  ELSE LET shorter == SeqsUpTo(S, n - 1)
       IN shorter \cup { Append(a, x) : a \in shorter, x \in S }

\* an absent, empty, single or repeated AdrLine; a sequence of one is what
\* buildMT103 is handed when the caller parses with arrays forced
AdrVals ==
  {Undef, Str(<<>>)} \cup AdrElems
    \cup { Arr(a) : a \in { b \in SeqsUpTo(AdrElems \cup {Str(<<>>)}, MaxAdrLines) : Len(b) >= 1 } }

ValsOf(field) ==
  CASE field \in {"IntrBkSttlmDt", "CreDtTm"} -> DateVals
    [] field = "IntrBkSttlmAmt" -> AmtVals
    [] field = "ChrgBr" -> ChrgVals
    [] field \in {"DbtrAdrLine", "CdtrAdrLine"} -> AdrVals
    [] OTHER -> TextVals

\* the message of the end-to-end scenario, and the message with no field at all
FullBase ==
  [f \in Fields |->
     CASE f = "InstrId" -> Str(sREF)
       [] f = "IntrBkSttlmDt" -> Str(sSttlmDt)
       [] f = "CreDtTm" -> Str(sCreDtTm)
       [] f = "IntrBkSttlmAmt" -> AttrText(s100, sUSD)
       [] f = "DbtrIBAN" -> Str(sIBAN)
       [] f = "OthrId" -> Str(sOTHR)
       [] f = "CdtrIBAN" -> Str(sIBAN)
       [] f \in {"DbtrAgt", "InstgAgt", "InstdAgt", "CdtrAgt"} -> Str(sBIC)
       [] f = "DbtrAdrLine" -> Arr(<<Str(sAB), Str(sCD)>>)
       [] f = "ChrgBr" -> Str(sSHAR)
       [] OTHER -> Str(sAB)]

EmptyBase == [f \in Fields |-> Undef]

\* the sets of fields that vary together: each field alone, and the pairs the
\* code reads together
VariedSets ==
  { {f} : f \in Fields }
    \cup { {"IntrBkSttlmDt", "CreDtTm"}, {"OthrId", "CdtrIBAN"},
           {"DbtrNm", "DbtrAdrLine"}, {"CdtrNm", "CdtrAdrLine"} }

\* the assignments of values to the fields of V
Assignments(V) ==
  { w \in [V -> UNION { ValsOf(f) : f \in V }] : \A f \in V : w[f] \in ValsOf(f) }

Flats ==
  UNION { { [f \in Fields |-> IF f \in V THEN w[f] ELSE base[f]] : w \in Assignments(V) } :
          base \in {FullBase, EmptyBase}, V \in VariedSets }

\* an element with the children r that are present; no child: absent
Node(r) ==
  LET present == { k \in DOMAIN r : r[k].t # "undef" }
  IN IF present = {} THEN Undef ELSE Obj([k \in present |-> r[k]])

Agent(bic) == Node([FinInstnId |-> Node([BICFI |-> bic])])
Party(nm, adr) == Node([Nm |-> nm, PstlAdr |-> Node([AdrLine |-> adr])])

\* <FIToFICstmrCdtTrf> with the fields of flat
MkData(flat) ==
  Node([GrpHdr |->
          Node([CreDtTm |-> flat["CreDtTm"],
                SttlmInf |-> Node([InstgRmbrsmntAgt |-> Agent(flat["InstgAgt"]),
                                   InstdRmbrsmntAgt |-> Agent(flat["InstdAgt"])])]),
        CdtTrfTxInf |->
          Node([PmtId |-> Node([InstrId |-> flat["InstrId"]]),
                IntrBkSttlmDt |-> flat["IntrBkSttlmDt"],
                IntrBkSttlmAmt |-> flat["IntrBkSttlmAmt"],
                ChrgBr |-> flat["ChrgBr"],
                Dbtr |-> Party(flat["DbtrNm"], flat["DbtrAdrLine"]),
                DbtrAcct |-> Node([Id |-> Node([IBAN |-> flat["DbtrIBAN"]])]),
                DbtrAgt |-> Agent(flat["DbtrAgt"]),
                CdtrAgt |-> Agent(flat["CdtrAgt"]),
                Cdtr |-> Party(flat["CdtrNm"], flat["CdtrAdrLine"]),
                CdtrAcct |-> Node([Id |-> Node([Othr |-> Node([Id |-> flat["OthrId"]]),
                                                IBAN |-> flat["CdtrIBAN"]])]),
                RmtInf |-> Node([Ustrd |-> flat["Ustrd"]])])])

\* an element with no content is the empty string
Element(v) == IF v.t = "undef" THEN Str(<<>>) ELSE v

Wrapped(data) == Obj("Document" :> Obj("FIToFICstmrCdtTrf" :> Element(data)))
Bare(data) == Obj("FIToFICstmrCdtTrf" :> Element(data))

\* documents with another root, with another element under Document, with an
\* empty Document, with a root that holds text only, with a repeated root
OtherTrees ==
  { Obj("pain001" :> MkData(FullBase)),
    Obj("Document" :> Obj("pain001" :> MkData(FullBase))),
    Obj("Document" :> Str(<<>>)),
    Bare(Str(sAB)),
    Wrapped(Str(sAB)),
    Wrapped(Arr(<<MkData(FullBase), MkData(FullBase)>>)) }

Trees ==
  { Wrapped(MkData(flat)) : flat \in Flats }
    \cup { Bare(MkData(flat)) : flat \in Flats }
    \cup OtherTrees

Init ==
  /\ pc = "idle"
  /\ objectString \in {"[object Object]", "TypeError"}
  /\ xmlText = "absent"
  /\ result = Undef
  /\ status = 0
  /\ errorText = ""
  /\ built = FALSE
  /\ mt103 = <<>>
  /\ body = <<>>
  /\ cleanArg = Undef
  /\ cleanRet = <<>>
  /\ dateArg = Undef
  /\ dateRet = <<>>
  /\ PageUntouched

\* the parseString callback with a tree: server.js 125-144
Callback ==
  /\ pc = "idle"
  /\ xmlText' = "text"
  /\ \E tree \in Trees :
       /\ result' = tree
       /\ \/ NotFound(tree)
          \/ ConversionError(tree)
          \/ Converted(tree)
  /\ pc' = "replied"
  /\ UNCHANGED <<objectString, cleanArg, cleanRet, dateArg, dateRet, clientVars>>

\* the next request: nothing of the last one is kept
NextRequest ==
  /\ pc = "replied"
  /\ pc' = "idle"
  /\ xmlText' = "absent"
  /\ result' = Undef
  /\ status' = 0
  /\ errorText' = ""
  /\ built' = FALSE
  /\ mt103' = <<>>
  /\ body' = <<>>
  /\ UNCHANGED <<objectString, cleanArg, cleanRet, dateArg, dateRet, clientVars>>

Next == NoXml \/ ParseError \/ Callback \/ NextRequest

Spec == Init /\ [][Next]_vars

(***************************************************************************)
(* Arguments of clean: up to MaxParts pieces, among them the token in two  *)
(* letter cases and the two halves that form it again around a removed     *)
(* occurrence.                                                             *)
(***************************************************************************)
Pieces ==
  { <<"N","O","T">>,
    <<"P","R","O","V","I","D","E","D">>,
    TOKEN,
    <<"n","o","t","P","r","o","v","i","d","e","d">>,
    <<" ">>,
    <<"X">> }

RECURSIVE Concats(_)
Concats(n) ==
  IF n = 0 THEN { <<>> }
  ELSE LET shorter == Concats(n - 1)
       IN shorter \cup { s \o p : s \in shorter, p \in Pieces }

CleanArgs == {Undef} \cup { Str(s) : s \in Concats(MaxParts) }

InitClean ==
  /\ pc = "call"
  /\ cleanArg \in CleanArgs
  /\ cleanRet = <<>>
  /\ dateArg = Undef
  /\ dateRet = <<>>
  /\ PageUntouched
  /\ objectString = "[object Object]"
  /\ xmlText = "absent"
  /\ result = Undef
  /\ status = 0
  /\ errorText = ""
  /\ built = FALSE
  /\ mt103 = <<>>
  /\ body = <<>>

CallClean ==
  /\ pc = "call"
  /\ cleanRet' = clean(cleanArg)
  /\ pc' = "return"
  /\ UNCHANGED <<objectString, xmlText, result, status, errorText, built, mt103, body,
                 cleanArg, dateArg, dateRet, clientVars>>

NextClean == CallClean

SpecClean == InitClean /\ [][NextClean]_vars

(***************************************************************************)
(* What the claims read: the source fields of the tree in the state, and   *)
(* the lines of the text sent.                                             *)
(***************************************************************************)
RECURSIVE Path(_, _)
Path(v, keys) == IF keys = <<>> THEN v ELSE Path(Get(v, Head(keys)), Tail(keys))

\* the credit-transfer element of the tree in the state and its fields
Root == resolveData(result)
Tx(keys) == Path(Root, <<"CdtTrfTxInf">> \o keys)
Hdr(keys) == Path(Root, <<"GrpHdr">> \o keys)

Replied200 == pc = "replied" /\ status = 200
RootResolves == pc = "replied" /\ xmlText = "text" /\ Truthy(Root)

\* the text of an element: its string, or the text beside its attributes
HasText(node) == node.t = "str" \/ (node.t = "obj" /\ HasKey(node, "_"))
TextOf(node) == IF node.t = "str" THEN node.s ELSE Get(node, "_").s
\* an element node with no text where a string is expected
NoText(node) == node.t = "obj" /\ ~HasKey(node, "_")

\* text.split("\n")
RECURSIVE split(_, _)
split(s, sep) ==
  IF ~includes(s, sep) THEN <<s>>
  ELSE LET i == CHOOSE j \in 1..Len(s) : s[j] = sep /\ \A k \in 1..(j - 1) : s[k] # sep
       IN <<SubSeq(s, 1, i - 1)>> \o split(SubSeq(s, i + 1, Len(s)), sep)

Markers ==
  <<Tag20, Tag23B, Tag32A, Tag50K, Tag52A, Tag53A, Tag54A, Tag57A, Tag59, Tag70, Tag71A>>

IsTagLine(line) == \E i \in 1..Len(Markers) : StartsWith(line, Markers[i])
MarkerOf(line) == Markers[CHOOSE i \in 1..Len(Markers) : StartsWith(line, Markers[i])]

\* the markers that begin a line, in the order of the lines
RECURSIVE TagsOf(_)
TagsOf(lines) ==
  IF lines = <<>> THEN <<>>
  ELSE (IF IsTagLine(Head(lines)) THEN <<MarkerOf(Head(lines))>> ELSE <<>>)
         \o TagsOf(Tail(lines))

\* C1: the text of a successful conversion has {4: as its first line and -}
\* as its last, and between them each of the eleven tag markers begins exactly
\* one line, in the order of the table, whatever the field values.
C1_TagCompleteness ==
  Replied200 =>
    LET lines == split(body, NL)
    IN /\ Len(lines) >= 2
       /\ lines[1] = Open4
       /\ lines[Len(lines)] = Close4
       /\ TagsOf(SubSeq(lines, 2, Len(lines) - 1)) = Markers

\* one of the two paths exists in the tree
PathExists(tree) ==
  HasKey(Get(tree, "Document"), "FIToFICstmrCdtTrf") \/ HasKey(tree, "FIToFICstmrCdtTrf")

\* one of the two paths exists and holds more than an empty element
NonEmptyElement(v) == v.t # "undef" /\ ~(v.t = "str" /\ Len(v.s) = 0)
PathHoldsContent(tree) ==
  \/ NonEmptyElement(Path(tree, <<"Document", "FIToFICstmrCdtTrf">>))
  \/ NonEmptyElement(Path(tree, <<"FIToFICstmrCdtTrf">>))

ParsedReply == pc = "replied" /\ result.t = "obj"
NoTextReturned == ~built /\ mt103 = <<>> /\ body = <<>> /\ status = 500

\* C2 as stated: a tree with neither path ends in the not-found rejection with
\* buildMT103 never invoked, and the rejection is raised only when both paths
\* are missing.
C2_NotFoundIffBothMissing ==
  ParsedReply =>
    /\ ~PathExists(result) => (errorText = ElementNotFound /\ NoTextReturned)
    /\ errorText = ElementNotFound => ~PathExists(result)

\* C2 amended: a tree with neither path ends in the not-found rejection with
\* buildMT103 never invoked and no text returned; the rejection is raised
\* exactly when neither path holds an element with content (a path whose
\* element is empty counts as not found).
C2_NotFoundIffNoContent ==
  ParsedReply =>
    /\ ~PathExists(result) => (errorText = ElementNotFound /\ NoTextReturned)
    /\ errorText = ElementNotFound <=> ~PathHoldsContent(result)
    /\ errorText = ElementNotFound => NoTextReturned

C2_Witness ==
  /\ ParsedReply /\ errorText = ElementNotFound /\ ~built
  /\ PathExists(result) /\ ~PathHoldsContent(result)

\* C3: when the root resolves but holds no CdtTrfTxInf, the conversion
\* reports a failure and returns no MT103 text built from empty defaults.
C3_MissingTransactionFails ==
  (RootResolves /\ ~HasKey(Root, "CdtTrfTxInf")) => (status # 200 /\ body = <<>>)

\* C4: what clean returns holds no occurrence of the token in any letter
\* case and no leading or trailing whitespace; an absent argument gives the
\* empty string.
C4_CleanScrubs ==
  pc = "return" =>
    /\ ~ContainsToken(cleanRet)
    /\ cleanRet # <<>> => (~IsSpace(cleanRet[1]) /\ ~IsSpace(cleanRet[Len(cleanRet)]))
    /\ cleanArg = Undef => cleanRet = <<>>

\* a source field that is only the placeholder and whitespace
PlaceholderOnly(node) ==
  /\ HasText(node)
  /\ ContainsToken(TextOf(node))
  /\ \A i \in 1..Len(TextOf(node)) :
       IsSpace(TextOf(node)[i]) \/ \E j \in 1..i : j + Len(TOKEN) > i /\ MatchesAt(TextOf(node), j)

\* C5: every value of the output is the cleaned form of its source field: no
\* pushed line holds the placeholder, and an amount or a currency that is only
\* the placeholder renders as nothing after the date of :32A:.
C5_EveryValueCleaned ==
  Replied200 =>
    /\ \A i \in 1..Len(mt103) : ~ContainsToken(mt103[i])
    /\ (PlaceholderOnly(Tx(<<"IntrBkSttlmAmt">>))
        /\ ~Truthy(Tx(<<"IntrBkSttlmAmt", "$", "Ccy">>)))
         => mt103[4] = Tag32A \o valueDate(Root)

\* the currency attribute of the amount element, empty when there is none
CcyOf(node) ==
  IF HasKey(Get(node, "$"), "Ccy") THEN Get(Get(node, "$"), "Ccy").s ELSE <<>>

\* the amount as the claim formats it: the decimal point replaced by a comma,
\* ",00" appended when there is no decimal point
LexicalAmount(text) ==
  IF text = <<>> THEN <<>>
  ELSE IF includes(text, ".") THEN replaceFirst(text, ".", ",")
  ELSE text \o <<",","0","0">>

\* the same, ",00" appended only when there is neither a point nor a comma
LexicalAmountNoComma(text) ==
  IF text = <<>> THEN <<>>
  ELSE IF includes(text, ".") THEN replaceFirst(text, ".", ",")
  ELSE IF includes(text, ",") THEN text
  ELSE text \o <<",","0","0">>

AmountNode == Tx(<<"IntrBkSttlmAmt">>)

\* C6 as stated: the amount of :32A: is the amount text with its decimal point
\* turned into a comma, or with ",00" appended when it has no decimal point;
\* an absent amount is empty; the currency is the Ccy attribute or empty; the
\* line is date, currency and amount with nothing between them.
C6_AmountLexical ==
  Replied200 =>
    /\ HasText(AmountNode) =>
         mt103[4] = Tag32A \o valueDate(Root) \o CcyOf(AmountNode)
                      \o LexicalAmount(TextOf(AmountNode))
    /\ AmountNode.t = "undef" => mt103[4] = Tag32A \o valueDate(Root)
    /\ StartsWith(mt103[4], Tag32A \o valueDate(Root) \o CcyOf(AmountNode))

\* C6 amended: the first decimal point of the amount text, if any, is replaced
\* by a comma and nothing else is changed; ",00" is appended when the text has
\* neither a decimal point nor a comma; an absent amount is empty; the currency
\* is the Ccy attribute or empty; :32A: is date, currency, amount, unseparated.
C6_AmountLexicalNoComma ==
  Replied200 =>
    /\ HasText(AmountNode) =>
         mt103[4] = Tag32A \o valueDate(Root) \o CcyOf(AmountNode)
                      \o LexicalAmountNoComma(TextOf(AmountNode))
    /\ AmountNode.t = "undef" => mt103[4] = Tag32A \o valueDate(Root)
    /\ StartsWith(mt103[4], Tag32A \o valueDate(Root) \o CcyOf(AmountNode))

C6_Witness ==
  /\ Replied200
  /\ AmountNode = Str(s100c5)
  /\ mt103[4] = Tag32A \o valueDate(Root) \o s100c5

\* the value parses as a date
Parses(node) == node.t = "str" /\ ParseDate(node.s).valid

ChrgNode == Tx(<<"ChrgBr">>)

\* the vocabulary of :71A:
Vocabulary(code) ==
  CASE code = sDEBT -> sOUR
    [] code = sCRED -> sBEN
    [] code = sSHAR -> sSHA
    [] OTHER -> code

\* C8 as stated: after :71A: stands OUR, BEN or SHA for the codes DEBT, CRED,
\* SHAR, any other code character for character, nothing for an absent code.
C8_ChargeCodeVerbatim ==
  (Replied200 /\ ChrgNode.t \in {"str", "undef"}) =>
    mt103[Len(mt103) - 1] =
      Tag71A \o (IF ChrgNode.t = "undef" THEN <<>> ELSE Vocabulary(ChrgNode.s))

\* C8 amended: after :71A: stands OUR, BEN or SHA when the cleaned code is
\* DEBT, CRED or SHAR, any other code in its cleaned form (placeholder
\* removed, surrounding whitespace trimmed), nothing for an absent code.
C8_ChargeCodeCleaned ==
  (Replied200 /\ ChrgNode.t \in {"str", "undef"}) =>
    mt103[Len(mt103) - 1] =
      Tag71A \o (IF ChrgNode.t = "undef" THEN <<>> ELSE Vocabulary(clean(ChrgNode)))

C8_Witness ==
  /\ Replied200
  /\ ChrgNode = Str(sXyzzPadded)
  /\ mt103[Len(mt103) - 1] = Tag71A \o sXYZZ

\* an address as an ordered sequence: a single line is a sequence of one
SourceLines(adr) ==
  IF adr.t = "arr" THEN adr.a ELSE IF adr.t = "undef" THEN <<>> ELSE <<adr>>

NonEmpty(s) == s # <<>>

\* the block of a party: tag, "/" and account, then the name if it is not
\* empty, then the address lines that are not empty, in source order
Block(tag, account, name, adr) ==
  <<tag \o <<"/">> \o account>>
    \o SelectSeq(<<clean(name)>>, NonEmpty)
    \o SelectSeq([i \in 1..Len(SourceLines(adr)) |-> clean(SourceLines(adr)[i])], NonEmpty)

DbtrBlock ==
  Block(Tag50K, clean(Tx(<<"DbtrAcct", "Id", "IBAN">>)), Tx(<<"Dbtr", "Nm">>),
        Tx(<<"Dbtr", "PstlAdr", "AdrLine">>))
CdtrBlock ==
  Block(Tag59, cdtrAccount(Root), Tx(<<"Cdtr", "Nm">>),
        Tx(<<"Cdtr", "PstlAdr", "AdrLine">>))

\* C9: the lines pushed from :50K: up to :52A: are the debtor's block, those
\* from :59: up to :70: the creditor's block.  A block reads the address as a
\* sequence, so a single string and a sequence of one give the same lines.
C9_PartyBlocks ==
  Replied200 =>
    LET n1 == Len(DbtrBlock)
        n2 == Len(CdtrBlock)
    IN /\ Len(mt103) = 11 + n1 + n2
       /\ SubSeq(mt103, 5, 4 + n1) = DbtrBlock
       /\ StartsWith(mt103[5 + n1], Tag52A)
       /\ SubSeq(mt103, 9 + n1, 8 + n1 + n2) = CdtrBlock
       /\ StartsWith(mt103[9 + n1 + n2], Tag70)

C9_Witness ==
  /\ Replied200
  /\ Tx(<<"Dbtr", "PstlAdr", "AdrLine">>) = Str(sCD)
  /\ Tx(<<"Dbtr", "Nm">>) = Str(sPlaceholder)
  /\ SubSeq(mt103, 5, 7) = <<Tag50K \o <<"/">> \o sIBAN, sCD, Tag52A \o sBIC>>

\* C10: when the root resolves, buildMT103 completes whatever the shape of
\* the fields, and a field given as an element node with no text renders as
\* an empty value after its tag.
C10_NeverRaisesEmptyForNodes ==
  RootResolves =>
    /\ status = 200
    /\ NoText(AmountNode) =>
         mt103[4] = Tag32A \o valueDate(Root) \o CcyOf(AmountNode)
    /\ NoText(Tx(<<"PmtId", "InstrId">>)) => mt103[2] = Tag20
    /\ NoText(ChrgNode) => mt103[Len(mt103) - 1] = Tag71A

(***************************************************************************)
(* Arguments of formatDateYYMMDD: dates and date-times in UTC of years     *)
(* with fewer than four digits, with four, and with more.                  *)
(***************************************************************************)
DateArgs ==
  LET YearTexts ==
        { <<"0","0","5","0">>, <<"0","9","9","9">>, <<"1","0","0","0">>,
          <<"1","9","9","9">>, <<"2","0","2","6">>, <<"9","9","9","9">>,
          <<"+","0","1","0","0","0","0">>, <<"+","0","1","2","3","4","5">> }
      MonthNumbers == 1..12
      DayNumbers == {1, 9, 10, 28}
      TimeTexts ==
        { <<>>, <<"T","0","8",":","0","0",":","0","0","Z">>,
          <<"T","2","3",":","5","9",":","5","9","Z">> }
  IN {Undef, Str(<<>>), Str(sNoDate), Str(TOKEN)}
       \cup { Str(y \o <<"-">> \o padStart2(NumStr(m)) \o <<"-">> \o padStart2(NumStr(d)) \o t) :
                y \in YearTexts, m \in MonthNumbers, d \in DayNumbers, t \in TimeTexts }

InitDate ==
  /\ pc = "dateCall"
  /\ dateArg \in DateArgs
  /\ dateRet = <<>>
  /\ PageUntouched
  /\ cleanArg = Undef
  /\ cleanRet = <<>>
  /\ objectString = "[object Object]"
  /\ xmlText = "absent"
  /\ result = Undef
  /\ status = 0
  /\ errorText = ""
  /\ built = FALSE
  /\ mt103 = <<>>
  /\ body = <<>>

CallFormatDate ==
  /\ pc = "dateCall"
  /\ dateRet' = formatDateYYMMDD(dateArg)
  /\ pc' = "dateReturn"
  /\ UNCHANGED <<objectString, xmlText, result, status, errorText, built, mt103, body,
                 cleanArg, cleanRet, dateArg, clientVars>>

SpecDate == InitDate /\ [][CallFormatDate]_vars

\* n, from 0 to 99, in two digits
TwoDigits(n) == <<Digits[(n \div 10) + 1], Digits[(n % 10) + 1]>>

\* C11: for a date string that parses, formatDateYYMMDD returns six digits:
\* the last two digits of the UTC year, the UTC month in two digits, the UTC
\* day in two digits, whatever the year.
C11_SixDigits ==
  (pc = "dateReturn" /\ Parses(dateArg)) =>
    LET date == ParseDate(dateArg.s)
    IN /\ Len(dateRet) = 6
       /\ AllDigits(dateRet)
       /\ dateRet = TwoDigits(date.fullYear % 100) \o TwoDigits(date.month + 1)
                      \o TwoDigits(date.date)

OthrIdNode == Tx(<<"CdtrAcct", "Id", "Othr", "Id">>)
CdtrIbanNode == Tx(<<"CdtrAcct", "Id", "IBAN">>)

\* the line pushed for :59: and what follows its "/"
Line59 == mt103[9 + Len(DbtrBlock)]
Account59 == SubSeq(Line59, Len(Tag59) + 2, Len(Line59))

\* C12: the identifier after :59:/ is the cleaned Othr.Id when that field has
\* a value, otherwise the cleaned IBAN, otherwise empty; it is empty only when
\* neither field has a value that is non-empty after cleaning, so an Othr.Id
\* that is empty or only the placeholder does not hide a usable IBAN.
C12_CreditorAccountPreference ==
  (Replied200 /\ OthrIdNode.t \in {"str", "undef"} /\ CdtrIbanNode.t \in {"str", "undef"}) =>
    /\ StartsWith(Line59, Tag59 \o <<"/">>)
    /\ Account59 = IF Truthy(OthrIdNode) THEN clean(OthrIdNode) ELSE clean(CdtrIbanNode)
    /\ Account59 = <<>> => (clean(OthrIdNode) = <<>> /\ clean(CdtrIbanNode) = <<>>)

(***************************************************************************)
(* What the server answers to a request (server.js 9-10, 118-145): the     *)
(* static files answer GET only, the urlencoded parser reads only bodies   *)
(* of its own type, and the one route is POST /convert-text.  A reply sent *)
(* with res.send(string) is text, never JSON.                              *)
(***************************************************************************)
Routed(req) == req.method = "POST" /\ req.path = "/convert-text"

\* req.body.xml is there: the urlencoded parser has read the body
HasXmlParameter(req) == req.contentType = "application/x-www-form-urlencoded"

HttpReply(code, type, text) ==
  [kind |-> "http", status |-> code, contentType |-> type, text |-> text, json |-> [parsed |-> FALSE]]

\* the replies to a request: those of the handler when the route matches
Replies(req) ==
  IF Routed(req)
  THEN IF HasXmlParameter(req)
       THEN { HttpReply(500, "text/html", ErrorParsingXml),
              HttpReply(500, "text/html", ElementNotFound),
              HttpReply(500, "text/html", ErrorConverting),
              HttpReply(200, "text/plain", "MT103") }
       ELSE { HttpReply(400, "text/html", NoXmlProvided) }
  ELSE { HttpReply(404, "text/html", "Cannot " \o req.method \o " " \o req.path) }

(***************************************************************************)
(* handleFormSubmit (public/script.js 27-82) against the server.           *)
(***************************************************************************)
InitClient ==
  /\ pc = "idle"
  /\ objectString = "[object Object]"
  /\ xmlText = "absent"
  /\ result = Undef
  /\ status = 0
  /\ errorText = ""
  /\ built = FALSE
  /\ mt103 = <<>>
  /\ body = <<>>
  /\ cleanArg = Undef
  /\ cleanRet = <<>>
  /\ dateArg = Undef
  /\ dateRet = <<>>
  /\ cpc = "ready"
  /\ form \in [FormFields -> { <<>>, <<" ">>, <<"A">>, <<"<","&">> }]
  /\ formValid \in BOOLEAN
  /\ request = NoRequest
  /\ response = [kind |-> "none"]
  /\ btnDisabled = FALSE
  /\ btnText = "Convert to MT103"
  /\ spinnerHidden = TRUE
  /\ resultHidden = TRUE
  /\ shown = "nothing"
  /\ shownText = <<>>

\* lines 37-40: the form is not valid
SubmitInvalidForm ==
  /\ cpc = "ready"
  /\ ~formValid
  /\ cpc' = "done"
  /\ UNCHANGED <<serverVars, form, formValid, request, response, btnDisabled, btnText,
                 spinnerHidden, resultHidden, shown, shownText>>

\* lines 42-59: the loading state, and the request sent
SubmitValidForm ==
  /\ cpc = "ready"
  /\ formValid
  /\ btnDisabled' = TRUE
  /\ btnText' = "Processing..."
  /\ resultHidden' = TRUE
  /\ spinnerHidden' = FALSE
  /\ request' = [method |-> "POST", path |-> "/api/convert",
                 contentType |-> "application/xml", body |-> getFormXML(form)]
  /\ cpc' = "awaiting"
  /\ UNCHANGED <<serverVars, form, formValid, response, shown, shownText>>

\* the server answers the request
Serve ==
  /\ cpc = "awaiting"
  /\ response' \in Replies(request)
  /\ cpc' = "settled"
  /\ UNCHANGED <<serverVars, form, formValid, request, btnDisabled, btnText,
                 spinnerHidden, resultHidden, shown, shownText>>

\* the request never reaches the server: fetch rejects
FetchRejects ==
  /\ cpc = "awaiting"
  /\ response' = [kind |-> "rejected"]
  /\ cpc' = "settled"
  /\ UNCHANGED <<serverVars, form, formValid, request, btnDisabled, btnText,
                 spinnerHidden, resultHidden, shown, shownText>>

\* what lines 61-75 show: the MT103 of a JSON reply that says success, an
\* error for a rejected fetch, a status that is not ok, a body that is not
\* JSON, or a reply that does not say success
Shows(resp) ==
  IF resp.kind = "http" /\ resp.status \in 200..299 /\ resp.json.parsed
       /\ resp.json.success
  THEN "mt103"
  ELSE "error"

\* lines 61-81: the promise has settled; displayMT103Result or showError,
\* then the finally block
ResumeAfterFetch ==
  /\ cpc = "settled"
  /\ shown' = Shows(response)
  /\ shownText' = IF Shows(response) = "mt103" THEN response.json.mt103 ELSE <<>>
  /\ resultHidden' = FALSE
  /\ btnDisabled' = FALSE
  /\ btnText' = "Convert to MT103"
  /\ spinnerHidden' = TRUE
  /\ cpc' = "done"
  /\ UNCHANGED <<serverVars, form, formValid, request, response>>

NextClient ==
  SubmitInvalidForm \/ SubmitValidForm \/ Serve \/ FetchRejects \/ ResumeAfterFetch

SpecClient == InitClient /\ [][NextClient]_vars

\* the server converted: the reply of line 139
IsConversion(resp) == resp.kind = "http" /\ resp.status = 200

\* C13: every request handleFormSubmit sends is accepted by a route the
\* server defines (method, path and body encoding); when the server has
\* converted, the page shows the MT103 and not an error; and when the
\* submission has finished the button is enabled again and the spinner hidden.
C13_ClientServerAgree ==
  /\ request # NoRequest => (Routed(request) /\ HasXmlParameter(request))
  /\ (cpc = "done" /\ IsConversion(response)) => shown = "mt103"
  /\ cpc = "done" => (~btnDisabled /\ spinnerHidden)

====
